---- MODULE Spec2Model ----
(***************************************************************************)
(* A model of glm_mda_diffusion.protein_hydrodynamic_radius and of its     *)
(* helpers _bead_description_compact, _bead_steric_radii and               *)
(* _bead_hydrodynamic_radii (src/glm_mda_diffusion/glm_mda_diffusion.py).  *)
(*                                                                         *)
(* Representation.                                                         *)
(*   - A Python str is a tuple of one-character strings.                   *)
(*   - Masses are integers in 1/100 Da, radii integers in 1/10000 Angstrom.*)
(*   - pi is the rational 355/113.                                         *)
(*   - Tensor entries are integers; everything derived from them by mean,  *)
(*     trace and inverse is an exact rational <<n, d>> in lowest terms     *)
(*     with d > 0.  effective_rh is the exact value rounded down to        *)
(*     1/10000.                                                            *)
(*   - A Python value that may be None, NaN or a number is a record with   *)
(*     a field kind; a local variable not yet assigned holds PyNone.       *)
(***************************************************************************)
EXTENDS Integers, Sequences, FiniteSets

VARIABLES
    sequence,                 \* argument: the annotated sequence
    ensemble_size,            \* argument, reassigned at line 143
    bootstrap_rounds,         \* argument: PyNone or PyInt(n)
    pc,                       \* position inside protein_hydrodynamic_radius
    bdc,                      \* line 98
    bead_steric_radii,        \* line 107
    bead_hydrodynamic_radii,  \* line 108
    conformation_ensemble,    \* line 110
    grand_grand_mu,           \* line 123
    effective_rh,             \* line 135
    effective_rh_sigma,       \* lines 137, 155
    effective_rh_list,        \* line 140
    round_i,                  \* the loop variable i of line 142
    b_indices,                \* the value of np.random.choice at line 145
    result,                   \* the returned dict, line 157
    error,                    \* the exception that left the call
    generateChain_calls,      \* calls of sarw_spheres.generateChain so far
    muTT_calls                \* calls of pygrpy.grpy_tensors.muTT so far

vars == <<sequence, ensemble_size, bootstrap_rounds, pc, bdc, bead_steric_radii,
          bead_hydrodynamic_radii, conformation_ensemble, grand_grand_mu,
          effective_rh, effective_rh_sigma, effective_rh_list, round_i, b_indices,
          result, error, generateChain_calls, muTT_calls>>

\* "no key is missing" in FirstMissing
None == "None"

PyNone == [kind |-> "None"]
PyNaN == [kind |-> "nan"]
PyInt(n) == [kind |-> "int", value |-> n]
PyFloat(x) == [kind |-> "float", value |-> x]

(***************************************************************************)
(* Bounds of the model.                                                    *)
(***************************************************************************)
\* longest sequence handed to the parser on its own
MaxLen == 6
\* largest ensemble_size of a whole call
MaxEnsemble == 2
\* largest bootstrap_rounds of a whole call
MaxRounds == 2

(***************************************************************************)
(* Characters.  "A" and "G" stand for the upper-case letters (all 26 are   *)
(* keys of default_aminoacid_masses), "x" for any character that is not a  *)
(* key of the mapping and not a bracket.                                   *)
(***************************************************************************)
Chars == {"A", "G", "x", "[", "]"}

UpperCase == {"A", "G"}

\* default_aminoacid_masses restricted to Chars, in 1/100 Da
default_aminoacid_masses == [A |-> 7108, G |-> 5706]

\* keyword defaults of protein_hydrodynamic_radius, in 1/10000 Angstrom
steric_radius == 19025
hydrodynamic_radius == 42000
hydration_thickness == 30000
\* in 1/100 Da / Angstrom^3
effective_density == 52

Strings(n) == UNION {[1..k -> Chars] : k \in 0..n}

(***************************************************************************)
(* re.split("(\[[A-Z].*?\])", s)                                           *)
(***************************************************************************)
\* The end of the match of \[[A-Z].*?\] that starts at i, or 0 when the
\* pattern does not match at i: "[", an upper-case letter, then the fewest
\* characters up to a "]".
MatchEnd(s, i) ==
    IF /\ s[i] = "["
       /\ i + 1 <= Len(s)
       /\ s[i + 1] \in UpperCase
       /\ \E j \in (i + 2)..Len(s) : s[j] = "]"
    THEN CHOOSE j \in (i + 2)..Len(s) :
             /\ s[j] = "]"
             /\ \A k \in (i + 2)..(j - 1) : s[k] # "]"
    ELSE 0

\* The scan of re.split from position i; start is where the text not yet
\* emitted begins.  A match emits the text before it and, because the
\* pattern is one capture group, the match itself; the end of the string
\* emits the rest.  Empty pieces are kept.
RECURSIVE ReSplitFrom(_, _, _, _)
ReSplitFrom(s, i, start, acc) ==
    IF i > Len(s)
    THEN Append(acc, SubSeq(s, start, Len(s)))
    ELSE LET e == MatchEnd(s, i)
         IN  IF e # 0
             THEN ReSplitFrom(s, e + 1, e + 1,
                      acc \o <<SubSeq(s, start, i - 1), SubSeq(s, i, e)>>)
             ELSE ReSplitFrom(s, i + 1, start, acc)

ReSplit(s) == ReSplitFrom(s, 1, 1, <<>>)

(***************************************************************************)
(* _bead_description_compact                                               *)
(***************************************************************************)
\* The largest r in lo..hi-1 with r^3 <= v, given lo^3 <= v < hi^3.
RECURSIVE CbrtSearch(_, _, _)
CbrtSearch(v, lo, hi) ==
    IF hi - lo <= 1
    THEN lo
    ELSE LET mid == (lo + hi) \div 2
         IN  IF mid * mid * mid <= v
             THEN CbrtSearch(v, mid, hi)
             ELSE CbrtSearch(v, lo, mid)

\* the condition of the first branch, line 173
IsBracketed(block) ==
    Len(block) >= 2 /\ block[1] = "[" /\ block[Len(block)] = "]"

\* the condition of the second branch, line 181
IsFree(block) ==
    Len(block) > 0 /\ block[1] # "[" /\ block[Len(block)] # "]"

\* block[1:-1]
Inner(block) == SubSeq(block, 2, Len(block) - 1)

\* the first character of aas that is no key of the mapping, or None:
\* where sum(aminoacid_masses[aa] for aa in ...) raises KeyError
FirstMissing(aas, aminoacid_masses) ==
    IF \E i \in 1..Len(aas) : aas[i] \notin DOMAIN aminoacid_masses
    THEN aas[CHOOSE i \in 1..Len(aas) :
                 /\ aas[i] \notin DOMAIN aminoacid_masses
                 /\ \A k \in 1..(i - 1) : aas[k] \in DOMAIN aminoacid_masses]
    ELSE None

\* sum(aminoacid_masses[aa] for aa in aas), every aa a key
RECURSIVE MassSum(_, _)
MassSum(aas, aminoacid_masses) ==
    IF aas = <<>>
    THEN 0
    ELSE aminoacid_masses[Head(aas)] + MassSum(Tail(aas), aminoacid_masses)

\* lines 175-178.  block_mass * (3 / (4 pi)) in 1/1000 Da is
\* block_mass * 3390 / 1420; divided by the density it is the excluded
\* volume, here in (1/100 Angstrom)^3; its cube root, in 1/100 Angstrom,
\* is rounded down.
BlockRadius(block_mass, density, hydration) ==
    LET volume == ((((block_mass * 3390) \div 1420) * 1000) \div density) * 100
        block_excluded_volume_radius == CbrtSearch(volume, 0, 1290) * 100
    IN  block_excluded_volume_radius + hydration

\* what one block appends (line 179, lines 182-184) or raises (line 174,
\* line 186)
BlockOutcome(block, hr, sr, density, hydration, aminoacid_masses) ==
    IF IsBracketed(block)
    THEN IF FirstMissing(Inner(block), aminoacid_masses) # None
         THEN [kind |-> "KeyError",
               key |-> FirstMissing(Inner(block), aminoacid_masses)]
         ELSE LET block_radius ==
                      BlockRadius(MassSum(Inner(block), aminoacid_masses),
                                  density, hydration)
              IN  [kind |-> "group",
                   group |-> <<block_radius, block_radius, 1>>]
    ELSE IF IsFree(block)
    THEN [kind |-> "group", group |-> <<hr, sr, Len(block)>>]
    ELSE [kind |-> "ValueError", block |-> block]

\* BlocksLoop with every group put in front of the list instead of at its
\* end (insert(0, ...) for append)
RECURSIVE BlocksLoopPrepending(_, _, _, _, _, _, _)
BlocksLoopPrepending(blocks, acc, hr, sr, density, hydration, aminoacid_masses) ==
    IF blocks = <<>>
    THEN [kind |-> "return", value |-> acc]
    ELSE LET o == BlockOutcome(Head(blocks), hr, sr, density, hydration,
                               aminoacid_masses)
         IN  IF o.kind = "group"
             THEN BlocksLoopPrepending(Tail(blocks), <<o.group>> \o acc, hr, sr,
                                       density, hydration, aminoacid_masses)
             ELSE o

\* the loop of lines 172-186 over the blocks not yet visited
RECURSIVE BlocksLoop(_, _, _, _, _, _, _)
BlocksLoop(blocks, acc, hr, sr, density, hydration, aminoacid_masses) ==
    IF blocks = <<>>
    THEN [kind |-> "return", value |-> acc]
    ELSE LET o == BlockOutcome(Head(blocks), hr, sr, density, hydration,
                               aminoacid_masses)
         IN  IF o.kind = "group"
             THEN BlocksLoop(Tail(blocks), Append(acc, o.group), hr, sr,
                             density, hydration, aminoacid_masses)
             ELSE o

\* _bead_description_compact: [kind |-> "return", value |-> the list] or
\* the exception raised.  A group is <<hydrodynamic radius, steric radius,
\* count>>, in the order of the lists appended at lines 179 and 182-184.
BeadDescriptionCompact(annotated_sequence, hr, sr, density, hydration, masses) ==
    BlocksLoop(ReSplit(annotated_sequence), <<>>, hr, sr, density, hydration,
               masses)

(***************************************************************************)
(* _bead_steric_radii, _bead_hydrodynamic_radii                            *)
(***************************************************************************)
\* [x] * n
Repeat(x, n) == [i \in 1..n |-> x]

\* BeadStericRadii reading the first element of a group, the hydrodynamic
\* radius, as the steric radius
RECURSIVE BeadStericRadiiSwapped(_)
BeadStericRadiiSwapped(bead_description_compact) ==
    IF bead_description_compact = <<>>
    THEN <<>>
    ELSE LET g == Head(bead_description_compact)
         IN  Repeat(g[1], g[3])
                 \o BeadStericRadiiSwapped(Tail(bead_description_compact))

\* sum(([sr] * n for (hr, sr, n) in bead_description_compact), [])
RECURSIVE BeadStericRadii(_)
BeadStericRadii(bead_description_compact) ==
    IF bead_description_compact = <<>>
    THEN <<>>
    ELSE LET g == Head(bead_description_compact)
         IN  Repeat(g[2], g[3]) \o BeadStericRadii(Tail(bead_description_compact))

\* sum(([hr] * n for (hr, sr, n) in bead_description_compact), [])
RECURSIVE BeadHydrodynamicRadii(_)
BeadHydrodynamicRadii(bead_description_compact) ==
    IF bead_description_compact = <<>>
    THEN <<>>
    ELSE LET g == Head(bead_description_compact)
         IN  Repeat(g[1], g[3])
                 \o BeadHydrodynamicRadii(Tail(bead_description_compact))

(***************************************************************************)
(* Exact rationals <<n, d>>, d > 0, in lowest terms.                       *)
(***************************************************************************)
Abs(n) == IF n < 0 THEN -n ELSE n

RECURSIVE GCD(_, _)
GCD(a, b) == IF b = 0 THEN a ELSE GCD(b, a % b)

Rat(n, d) ==
    LET g == GCD(Abs(n), Abs(d))
        sign == IF d < 0 THEN -1 ELSE 1
    IN  <<sign * (n \div g), sign * (d \div g)>>

RatZero == <<0, 1>>

RatAdd(p, q) ==
    LET l == (p[2] \div GCD(p[2], q[2])) * q[2]
    IN  Rat(p[1] * (l \div p[2]) + q[1] * (l \div q[2]), l)

RatNeg(p) == <<-p[1], p[2]>>

RatMul(p, q) ==
    LET a == Rat(p[1], q[2])
        b == Rat(q[1], p[2])
    IN  <<a[1] * b[1], a[2] * b[2]>>

\* p / q, q not zero
RatDiv(p, q) == RatMul(p, Rat(q[2], q[1]))

RECURSIVE RatSumSeq(_)
RatSumSeq(ps) ==
    IF ps = <<>> THEN RatZero ELSE RatAdd(Head(ps), RatSumSeq(Tail(ps)))

RECURSIVE IntSumSeq(_)
IntSumSeq(ns) == IF ns = <<>> THEN 0 ELSE Head(ns) + IntSumSeq(Tail(ns))

(***************************************************************************)
(* The numpy calls of lines 130-135 and 147-155.                           *)
(* A mobility tensor has shape (N, N, 3, 3): t[a][b] is the 3 x 3 block of *)
(* the bead pair (a, b).                                                   *)
(***************************************************************************)
\* f as a tuple whose elements are evaluated once
Array(f) == f \o <<>>

\* np.mean(ggm, axis=0): the element-wise mean of the tensors of ggm
NpMean(ggm) ==
    LET m == Len(ggm)
        n == Len(ggm[1])
    IN  Array([a \in 1..n |-> Array([b \in 1..n |->
            Array([r \in 1..3 |-> Array([c \in 1..3 |->
                Rat(IntSumSeq([k \in 1..m |-> ggm[k][a][b][r][c]]), m)])])])])

\* np.trace(mu, axis1=-2, axis2=-1): the trace of every 3 x 3 block
NpTrace(mu) ==
    LET n == Len(mu)
    IN  Array([a \in 1..n |-> Array([b \in 1..n |->
            RatAdd(mu[a][b][1][1], RatAdd(mu[a][b][2][2], mu[a][b][3][3]))])])

\* One step of Gauss-Jordan elimination on the n x 2n matrix aug, whose
\* columns before k are already those of the identity: a row at or below k
\* with a non-zero entry in column k is moved to row k and scaled to 1
\* there, and column k is cleared from every other row.  No such row: the
\* matrix is singular.
RECURSIVE GaussJordan(_, _)
GaussJordan(aug, k) ==
    LET n == Len(aug)
    IN  IF k > n
        THEN [kind |-> "array", value |-> aug]
        ELSE IF \A r \in k..n : aug[r][k] = RatZero
        THEN [kind |-> "LinAlgError"]
        ELSE LET p == CHOOSE r \in k..n :
                          /\ aug[r][k] # RatZero
                          /\ \A q \in k..(r - 1) : aug[q][k] = RatZero
                 pivot == Array([c \in 1..(2 * n) |->
                              RatDiv(aug[p][c], aug[p][k])])
                 row(r) == IF r = k THEN aug[p] ELSE IF r = p THEN aug[k]
                           ELSE aug[r]
             IN  GaussJordan(
                     Array([r \in 1..n |->
                         IF r = k
                         THEN pivot
                         ELSE Array([c \in 1..(2 * n) |->
                                  RatAdd(row(r)[c],
                                         RatNeg(RatMul(row(r)[k], pivot[c])))])]),
                     k + 1)

\* np.linalg.inv(mat): the inverse, or LinAlgError for a singular matrix
NpLinalgInv(mat) ==
    LET n == Len(mat)
        aug == Array([r \in 1..n |-> Array([c \in 1..(2 * n) |->
                   IF c <= n THEN mat[r][c]
                   ELSE IF c = n + r THEN <<1, 1>> ELSE RatZero])])
        done == GaussJordan(aug, 1)
    IN  IF done.kind = "LinAlgError"
        THEN done
        ELSE [kind |-> "array",
              value |-> Array([r \in 1..n |-> SubSeq(done.value[r], n + 1, 2 * n)])]

\* np.sum(mat): the sum of all entries
NpSum(mat) ==
    RatSumSeq([a \in 1..Len(mat) |-> RatSumSeq(mat[a])])

\* total / (2 * np.pi) as a float: rounded down to 1/10000
DivTwoPi(total) == (total[1] * 1130000) \div (total[2] * 710)

\* The largest r in lo..hi-1 with r^2 <= v, given lo^2 <= v < hi^2.
RECURSIVE SqrtSearch(_, _, _)
SqrtSearch(v, lo, hi) ==
    IF hi - lo <= 1
    THEN lo
    ELSE LET mid == (lo + hi) \div 2
         IN  IF mid * mid <= v
             THEN SqrtSearch(v, mid, hi)
             ELSE SqrtSearch(v, lo, mid)

\* np.std(xs): the population standard deviation, NaN for an empty list.
\* With s the sum of the r values, the variance is
\* sum((r * x - s)^2) / r^3.
NpStd(xs) ==
    IF xs = <<>>
    THEN PyNaN
    ELSE LET r == Len(xs)
             s == IntSumSeq(xs)
             sq == IntSumSeq([k \in 1..r |-> (r * xs[k] - s) * (r * xs[k] - s)])
         IN  PyFloat(SqrtSearch(sq \div (r * r * r), 0, 46340))

\* lines 130-135: [kind |-> "float", value |-> effective_rh], or LinAlgError
EffectiveRh(ggm) ==
    LET grand_mu == NpMean(ggm)
        grand_trace == NpTrace(grand_mu)
        inv_mat == NpLinalgInv(grand_trace)
    IN  IF inv_mat.kind = "LinAlgError"
        THEN inv_mat
        ELSE LET total == NpSum(inv_mat.value)
             IN  PyFloat(DivTwoPi(total))

\* BootstrapEffectiveRh with the inverse taken of every tensor's trace
\* matrix and the mean taken last, of the sums
BootstrapInverseFirst(b_ggm) ==
    LET inverses == [k \in 1..Len(b_ggm) |->
                        NpLinalgInv(NpTrace(NpMean(<<b_ggm[k]>>)))]
    IN  IF \E k \in 1..Len(b_ggm) : inverses[k].kind = "LinAlgError"
        THEN [kind |-> "LinAlgError"]
        ELSE LET sums == RatSumSeq([k \in 1..Len(b_ggm) |->
                             NpSum(inverses[k].value)])
             IN  PyFloat(DivTwoPi(RatDiv(sums, <<Len(b_ggm), 1>>)))

\* lines 147-151: the same reduction of the resampled ensemble
BootstrapEffectiveRh(b_ggm) ==
    LET b_grand_mu == NpMean(b_ggm)
        b_grand_trace == NpTrace(b_grand_mu)
        b_inv_mat == NpLinalgInv(b_grand_trace)
    IN  IF b_inv_mat.kind = "LinAlgError"
        THEN b_inv_mat
        ELSE LET b_total == NpSum(b_inv_mat.value)
             IN  PyFloat(DivTwoPi(b_total))

\* the values np.random.choice(a, size) may return
RandomChoice(a, size) == [1..size -> 0..(a - 1)]

\* ggm[indices], numpy's indexing by an integer array
Gather(ggm, indices) == Array([k \in 1..Len(indices) |-> ggm[indices[k] + 1]])

(***************************************************************************)
(* The external collaborators.  Their code is outside the repository: a    *)
(* conformation is one of the two values 0 and 1, and muTT maps            *)
(* conformation c to a tensor whose diagonal blocks are (c + 1) times the  *)
(* identity and whose other blocks hold 1 everywhere.  The trace matrix of *)
(* conformation 0 is singular for two beads or more.  Either call may      *)
(* raise instead.                                                          *)
(***************************************************************************)
\* the values sarw_spheres.generateChain may return
GenerateChain(radii) == {0, 1}

\* pygrpy.grpy_tensors.muTT(locations, radii)
MuTT(locations, radii) ==
    LET n == Len(radii)
    IN  Array([a \in 1..n |-> Array([b \in 1..n |->
            Array([r \in 1..3 |-> Array([c \in 1..3 |->
                IF a = b THEN (IF r = c THEN locations + 1 ELSE 0) ELSE 1])])])])

(***************************************************************************)
(* protein_hydrodynamic_radius, one action per step                        *)
(***************************************************************************)
\* the sequences of the whole calls: "A", "A[A]A", "A[G", "[AAAA]",
\* "A[AG]", "[x]", "A[Ax]A", ""
CallSequences ==
    { <<"A">>,
      <<"A", "[", "A", "]", "A">>,
      <<"A", "[", "G">>,
      <<"[", "A", "A", "A", "A", "]">>,
      <<"A", "[", "A", "G", "]">>,
      <<"[", "x", "]">>,
      <<"A", "[", "A", "x", "]", "A">>,
      <<>> }

\* the state at the entry of the function, the arguments aside
Entry ==
    /\ pc = "parse"
    /\ bdc = <<>>
    /\ bead_steric_radii = <<>>
    /\ bead_hydrodynamic_radii = <<>>
    /\ conformation_ensemble = <<>>
    /\ grand_grand_mu = <<>>
    /\ effective_rh = PyNone
    /\ effective_rh_sigma = PyNone
    /\ effective_rh_list = <<>>
    /\ round_i = 0
    /\ b_indices = <<>>
    /\ result = PyNone
    /\ error = PyNone
    /\ generateChain_calls = 0
    /\ muTT_calls = 0

\* a whole call
Init ==
    /\ sequence \in CallSequences
    /\ ensemble_size \in 1..MaxEnsemble
    /\ bootstrap_rounds \in {PyNone} \cup {PyInt(n) : n \in 0..MaxRounds}
    /\ Entry

\* a call of any sequence, with the defaults of lines 59-60; followed up to
\* line 108
InitParser ==
    /\ sequence \in Strings(MaxLen)
    /\ ensemble_size = 30
    /\ bootstrap_rounds = PyInt(10)
    /\ Entry

\* Raise with the exception caught and dropped: the step is skipped and
\* the call goes on
RaiseSwallowed(exception) == UNCHANGED <<error, pc>>

\* raise: the exception leaves the function, which returns nothing
Raise(exception) ==
    /\ error' = exception
    /\ pc' = "raised"

\* the call of lines 98-105 with the keyword arguments in the order of the
\* parameters of line 160
ParseCall(seq) ==
    BeadDescriptionCompact(seq, hydrodynamic_radius, steric_radius, effective_density, hydration_thickness, default_aminoacid_masses)

\* lines 98-105
Parse ==
    /\ pc = "parse"
    /\ LET r == ParseCall(sequence)
       IN  IF r.kind = "return"
           THEN /\ bdc' = r.value
                /\ pc' = "expand"
                /\ UNCHANGED error
           ELSE /\ Raise(r)
                /\ UNCHANGED bdc
    /\ UNCHANGED <<sequence, ensemble_size, bootstrap_rounds, bead_steric_radii,
                   bead_hydrodynamic_radii, conformation_ensemble,
                   grand_grand_mu, effective_rh, effective_rh_sigma,
                   effective_rh_list, round_i, b_indices, result, generateChain_calls, muTT_calls>>

\* lines 107-110
Expand ==
    /\ pc = "expand"
    /\ bead_steric_radii' = BeadStericRadii(bdc)
    /\ bead_hydrodynamic_radii' = BeadHydrodynamicRadii(bdc)
    /\ conformation_ensemble' = <<>>
    /\ pc' = "generate"
    /\ UNCHANGED <<sequence, ensemble_size, bootstrap_rounds, bdc,
                   grand_grand_mu, effective_rh, effective_rh_sigma,
                   effective_rh_list, round_i, b_indices, result, error, generateChain_calls, muTT_calls>>

\* lines 118-121, one iteration: generateChain returns
Generate ==
    /\ pc = "generate"
    /\ Len(conformation_ensemble) < ensemble_size
    /\ generateChain_calls' = generateChain_calls + 1
    /\ \E locations \in GenerateChain(bead_steric_radii) :
           conformation_ensemble' = Append(conformation_ensemble, locations)
    /\ pc' = IF Len(conformation_ensemble) + 1 = ensemble_size
             THEN "mobility"
             ELSE "generate"
    /\ UNCHANGED <<sequence, ensemble_size, bootstrap_rounds, bdc,
                   bead_steric_radii, bead_hydrodynamic_radii, grand_grand_mu,
                   effective_rh, effective_rh_sigma, effective_rh_list, round_i,
                   b_indices, result, error, muTT_calls>>

\* lines 118-121, one iteration: generateChain raises
GenerateRaises ==
    /\ pc = "generate"
    /\ Len(conformation_ensemble) < ensemble_size
    /\ generateChain_calls' = generateChain_calls + 1
    /\ Raise([kind |-> "ComputationError", from |-> "generateChain"])
    /\ UNCHANGED <<sequence, ensemble_size, bootstrap_rounds, bdc,
                   bead_steric_radii, bead_hydrodynamic_radii,
                   conformation_ensemble, grand_grand_mu, effective_rh,
                   effective_rh_sigma, effective_rh_list, round_i, b_indices,
                   result, muTT_calls>>

\* lines 123-128, one element of the comprehension: muTT returns
Mobility ==
    /\ pc = "mobility"
    /\ Len(grand_grand_mu) < Len(conformation_ensemble)
    /\ muTT_calls' = muTT_calls + 1
    /\ grand_grand_mu' =
           Append(grand_grand_mu,
                  MuTT(conformation_ensemble[Len(grand_grand_mu) + 1],
                       bead_hydrodynamic_radii))
    /\ pc' = IF Len(grand_grand_mu) + 1 = Len(conformation_ensemble)
             THEN "aggregate"
             ELSE "mobility"
    /\ UNCHANGED <<sequence, ensemble_size, bootstrap_rounds, bdc,
                   bead_steric_radii, bead_hydrodynamic_radii,
                   conformation_ensemble, effective_rh, effective_rh_sigma,
                   effective_rh_list, round_i, b_indices, result, error, generateChain_calls>>

\* lines 123-128, one element of the comprehension: muTT raises
MobilityRaises ==
    /\ pc = "mobility"
    /\ Len(grand_grand_mu) < Len(conformation_ensemble)
    /\ muTT_calls' = muTT_calls + 1
    /\ Raise([kind |-> "ComputationError", from |-> "muTT"])
    /\ UNCHANGED <<sequence, ensemble_size, bootstrap_rounds, bdc,
                   bead_steric_radii, bead_hydrodynamic_radii,
                   conformation_ensemble, grand_grand_mu, effective_rh,
                   effective_rh_sigma, effective_rh_list, round_i, b_indices,
                   result, generateChain_calls>>

\* lines 130-140
Aggregate ==
    /\ pc = "aggregate"
    /\ LET r == EffectiveRh(grand_grand_mu)
       IN  IF r.kind = "LinAlgError"
           THEN /\ Raise(r)
                /\ UNCHANGED <<effective_rh, effective_rh_sigma,
                               effective_rh_list>>
           ELSE /\ effective_rh' = r
                /\ effective_rh_sigma' = PyNone
                /\ effective_rh_list' = <<>>
                /\ pc' = IF bootstrap_rounds # PyNone
                         THEN "bootstrap"
                         ELSE "return"
                /\ UNCHANGED error
    /\ UNCHANGED <<sequence, ensemble_size, bootstrap_rounds, bdc,
                   bead_steric_radii, bead_hydrodynamic_radii,
                   conformation_ensemble, grand_grand_mu, round_i, b_indices,
                   result, generateChain_calls, muTT_calls>>

\* RoundAppend on a list that every round starts afresh
RoundAppendToFreshList(list, b_effective_rh) == <<b_effective_rh>>

\* what one round appends to effective_rh_list, line 153
RoundAppend(list, b_effective_rh) == Append(list, b_effective_rh)

\* lines 142-153, one iteration
BootstrapRound ==
    /\ pc = "bootstrap"
    /\ round_i < bootstrap_rounds.value
    /\ round_i' = round_i + 1
    /\ ensemble_size' = Len(grand_grand_mu)
    /\ b_indices' \in RandomChoice(ensemble_size', ensemble_size')
    /\ LET b_ggm == Gather(grand_grand_mu, b_indices')
           r == BootstrapEffectiveRh(b_ggm)
       IN  IF r.kind = "LinAlgError"
           THEN /\ Raise(r)
                /\ UNCHANGED effective_rh_list
           ELSE /\ effective_rh_list' = RoundAppend(effective_rh_list, r.value)
                /\ UNCHANGED <<pc, error>>
    /\ UNCHANGED <<sequence, bootstrap_rounds, bdc, bead_steric_radii,
                   bead_hydrodynamic_radii, conformation_ensemble,
                   grand_grand_mu, effective_rh, effective_rh_sigma, result,
                   generateChain_calls, muTT_calls>>

\* line 155, after the last iteration
Sigma ==
    /\ pc = "bootstrap"
    /\ round_i >= bootstrap_rounds.value
    /\ effective_rh_sigma' = NpStd(effective_rh_list)
    /\ pc' = "return"
    /\ UNCHANGED <<sequence, ensemble_size, bootstrap_rounds, bdc,
                   bead_steric_radii, bead_hydrodynamic_radii,
                   conformation_ensemble, grand_grand_mu, effective_rh,
                   effective_rh_list, round_i, b_indices, result, error, generateChain_calls, muTT_calls>>

\* line 157
Return ==
    /\ pc = "return"
    /\ result' = [protein_rh |-> effective_rh,
                  protein_rh_sigma |-> effective_rh_sigma]
    /\ pc' = "returned"
    /\ UNCHANGED <<sequence, ensemble_size, bootstrap_rounds, bdc,
                   bead_steric_radii, bead_hydrodynamic_radii,
                   conformation_ensemble, grand_grand_mu, effective_rh,
                   effective_rh_sigma, effective_rh_list, round_i, b_indices,
                   error, generateChain_calls, muTT_calls>>

Next ==
    \/ Parse
    \/ Expand
    \/ Generate
    \/ GenerateRaises
    \/ Mobility
    \/ MobilityRaises
    \/ Aggregate
    \/ BootstrapRound
    \/ Sigma
    \/ Return

NextParser ==
    \/ Parse
    \/ Expand

\* whole calls of the sequences of CallSequences
Spec == Init /\ [][Next]_vars

\* the parser and the expansion on every sequence of at most MaxLen characters
SpecParser == InitParser /\ [][NextParser]_vars

(***************************************************************************)
(* The sequence grammar of the specification, read off the text and not    *)
(* off the regular expression: a well-formed sequence is one or more       *)
(* segments, each a free run of one or more residue codes or a bracketed   *)
(* domain "[" codes "]" whose first code is an upper-case letter.          *)
(***************************************************************************)
Letters == Chars \ {"[", "]"}

\* the first position at or after k that holds no letter (Len(s) + 1: none)
RunEnd(s, k) ==
    IF \E e \in k..Len(s) : s[e] \notin Letters
    THEN CHOOSE e \in k..Len(s) :
             /\ s[e] \notin Letters
             /\ \A q \in k..(e - 1) : s[q] \in Letters
    ELSE Len(s) + 1

\* the segments of s from position k on, after the segments acc
RECURSIVE SegmentsFrom(_, _, _)
SegmentsFrom(s, k, acc) ==
    IF k > Len(s)
    THEN [ok |-> TRUE, segments |-> acc]
    ELSE IF s[k] \in Letters
    THEN SegmentsFrom(s, RunEnd(s, k),
             Append(acc, [type |-> "free", residues |-> SubSeq(s, k, RunEnd(s, k) - 1)]))
    ELSE IF /\ s[k] = "["
            /\ k + 1 <= Len(s)
            /\ s[k + 1] \in UpperCase
            /\ RunEnd(s, k + 1) <= Len(s)
            /\ s[RunEnd(s, k + 1)] = "]"
    THEN SegmentsFrom(s, RunEnd(s, k + 1) + 1,
             Append(acc, [type |-> "domain",
                          residues |-> SubSeq(s, k + 1, RunEnd(s, k + 1) - 1)]))
    ELSE [ok |-> FALSE, segments |-> acc]

Segments(s) == SegmentsFrom(s, 1, <<>>).segments

WellFormed(s) == s # <<>> /\ SegmentsFrom(s, 1, <<>>).ok

\* every residue code of s is a key of the mass mapping
KnownResidues(s) ==
    \A k \in 1..Len(s) : s[k] \in Letters => s[k] \in DOMAIN default_aminoacid_masses

\* the number of beads a segment stands for
SegmentBeads(seg) == IF seg.type = "free" THEN Len(seg.residues) ELSE 1

\* the sum of the counts of the groups
RECURSIVE CountSum(_)
CountSum(groups) ==
    IF groups = <<>> THEN 0 ELSE Head(groups)[3] + CountSum(Tail(groups))

\* the index of the group that covers bead position p
RECURSIVE GroupAt(_, _)
GroupAt(groups, p) ==
    IF p <= Head(groups)[3] THEN 1 ELSE 1 + GroupAt(Tail(groups), p - Head(groups)[3])

\* the parser has returned
Parsed == pc \in {"expand", "generate"}

(***************************************************************************)
(* Claims about the parser and the expansion, under SpecParser             *)
(***************************************************************************)
\* C1: for every sequence built only from well-formed free runs and
\* well-formed bracketed domains of known residues, the parser returns
\* without raising, and each bracketed domain contributes exactly one group
\* with count 1 whose two radii are equal.
C1_EveryWellFormedSequenceParses ==
    (pc # "parse" /\ WellFormed(sequence) /\ KnownResidues(sequence)) =>
        /\ pc # "raised"
        /\ Len(bdc) = Len(Segments(sequence))
        /\ \A k \in 1..Len(bdc) :
               Segments(sequence)[k].type = "domain" =>
                   bdc[k][3] = 1 /\ bdc[k][1] = bdc[k][2]

\* a "[" of s with no "]" after it
UnmatchedOpen(s) ==
    \E k \in 1..Len(s) : s[k] = "[" /\ \A q \in (k + 1)..Len(s) : s[q] # "]"

\* C2: a sequence with an unmatched "[" makes the parser raise the
\* malformed-sequence ValueError, whose message ends with a substring of
\* the sequence; it is never accepted as linker beads.
C2_UnmatchedBracketRaisesValueError ==
    (pc # "parse" /\ UnmatchedOpen(sequence)) =>
        /\ pc = "raised"
        /\ error.kind = "ValueError"
        /\ \E a \in 1..(Len(sequence) + 1) : \E b \in 0..Len(sequence) :
               error.block = SubSeq(sequence, a, b)

\* C3: a sequence holding a residue code that is no key of the mass mapping,
\* in a free segment or in a bracketed domain, raises KeyError and returns
\* no bead description.
C3_UnknownResidueRaisesKeyError ==
    (pc # "parse" /\ ~KnownResidues(sequence)) =>
        pc = "raised" /\ error.kind = "KeyError" /\ bdc = <<>>

C6_ExpansionFollowsGroups ==
    pc = "generate" =>
        /\ Len(bead_steric_radii) = CountSum(bdc)
        /\ Len(bead_hydrodynamic_radii) = CountSum(bdc)
        /\ \A p \in 1..CountSum(bdc) :
               /\ bead_steric_radii[p] = bdc[GroupAt(bdc, p)][2]
               /\ bead_hydrodynamic_radii[p] = bdc[GroupAt(bdc, p)][1]
               /\ (WellFormed(sequence)
                   /\ Segments(sequence)[GroupAt(bdc, p)].type = "free") =>
                      /\ bead_steric_radii[p] = steric_radius
                      /\ bead_hydrodynamic_radii[p] = hydrodynamic_radius

\* C6 witness: a description of linker beads around a domain has been
\* expanded.
C6_Witness ==
    /\ pc = "generate"
    /\ Len(bdc) = 3
    /\ Len(bead_steric_radii) = 4
    /\ bead_steric_radii[1] = steric_radius
    /\ bead_steric_radii[2] # steric_radius
    /\ bead_hydrodynamic_radii[4] = hydrodynamic_radius

(***************************************************************************)
(* Claims about whole calls, under Spec                                    *)
(***************************************************************************)
\* C4: the returned record carries no protein_rh_sigma value when
\* bootstrap_rounds is None or 0, and a non-negative float when
\* bootstrap_rounds is a positive integer.
C4_SigmaOnlyWhenBootstrapped ==
    pc = "returned" =>
        IF bootstrap_rounds # PyNone /\ bootstrap_rounds.value > 0
        THEN /\ result.protein_rh_sigma.kind = "float"
             /\ result.protein_rh_sigma.value >= 0
        ELSE result.protein_rh_sigma = PyNone

\* C7: a call on a sequence that is not well formed, such as "A[G" with
\* its unmatched bracket, never calls generateChain or muTT.
C7_MalformedSequenceNeverSamples ==
    ~WellFormed(sequence) => generateChain_calls = 0 /\ muTT_calls = 0

\* indices is a permutation of 0..m-1
IsPermutation(indices, m) ==
    Len(indices) = m /\ {indices[k] : k \in 1..Len(indices)} = 0..(m - 1)

\* the sum of the three diagonal entries of a 3 x 3 block of integers
BlockTrace(block) == block[1][1] + block[2][2] + block[3][3]

\* C8: the effective radius is the mean taken first, then the trace, the
\* inverse, the sum and the division by 2 pi.  (a) A bootstrap round whose
\* indices are a permutation of 0..M-1 does not raise and appends the
\* top-level effective_rh.  (b) For one bead the radius is
\* 1 / (2 pi * mean of the M traces), the reciprocal of the mean and not
\* the mean of the reciprocals.  (c) The radius is the sum of the entries
\* of a matrix X with (trace of the mean tensor) * X = identity, divided
\* by 2 pi.
C8_MeanThenTraceThenInverse ==
    /\ (round_i >= 1 /\ IsPermutation(b_indices, Len(grand_grand_mu))) =>
           /\ pc # "raised"
           /\ Len(effective_rh_list) >= 1
           /\ effective_rh_list[Len(effective_rh_list)] = effective_rh.value
    /\ (effective_rh # PyNone /\ Len(bead_hydrodynamic_radii) = 1) =>
           effective_rh.value =
               (Len(grand_grand_mu) * 1130000)
                   \div (710 * IntSumSeq([k \in 1..Len(grand_grand_mu) |->
                                 BlockTrace(grand_grand_mu[k][1][1])]))
    /\ effective_rh # PyNone =>
           LET n == Len(bead_hydrodynamic_radii)
               m == Len(grand_grand_mu)
               t == [a \in 1..n |-> [b \in 1..n |->
                        Rat(IntSumSeq([k \in 1..m |->
                                BlockTrace(grand_grand_mu[k][a][b])]), m)]]
           IN  \E x \in {NpLinalgInv(t).value} :
                   /\ \A a \in 1..n : \A b \in 1..n :
                          RatSumSeq([k \in 1..n |-> RatMul(t[a][k], x[k][b])])
                              = IF a = b THEN <<1, 1>> ELSE RatZero
                   /\ effective_rh.value = DivTwoPi(NpSum(x))

\* C8 witness: two different tensors, a round that drew them in the other
\* order, and the round's radius in the list.
C8_Witness ==
    /\ round_i >= 1
    /\ Len(grand_grand_mu) = 2
    /\ grand_grand_mu[1] # grand_grand_mu[2]
    /\ b_indices = <<1, 0>>
    /\ Len(effective_rh_list) = round_i
    /\ effective_rh_list[round_i] = effective_rh.value

\* the state invariants of C9
C9_Rounds ==
    /\ (pc \in {"return", "returned"} /\ bootstrap_rounds # PyNone) =>
           /\ round_i = bootstrap_rounds.value
           /\ Len(effective_rh_list) = bootstrap_rounds.value
    /\ (pc = "bootstrap") => Len(effective_rh_list) = round_i
    /\ round_i >= 1 =>
           /\ ensemble_size = Len(grand_grand_mu)
           /\ Len(b_indices) = ensemble_size
           /\ \A k \in 1..Len(b_indices) : b_indices[k] \in 0..(ensemble_size - 1)
           /\ Len(Gather(grand_grand_mu, b_indices)) = ensemble_size

\* the frame of a round of C9
C9_RoundFrame ==
    pc = "bootstrap" =>
        /\ grand_grand_mu' = grand_grand_mu
        /\ effective_rh' = effective_rh
        /\ (pc' = "bootstrap" /\ round_i' # round_i) =>
               /\ round_i' = round_i + 1
               /\ Len(effective_rh_list') = Len(effective_rh_list) + 1

\* C9: with bootstrap_rounds = R >= 0 and M tensors the estimator runs
\* exactly R rounds; every round draws M indices, each in 0..M-1, gathers M
\* tensors and appends exactly one radius, so the list has R entries when
\* the standard deviation is taken; no round changes grand_grand_mu or
\* effective_rh.
C9_BootstrapRounds == [](C9_Rounds) /\ [][C9_RoundFrame]_vars

\* C9 witness: the second round of two has run on an ensemble of two, with
\* a repeated index.
C9_Witness ==
    /\ pc = "bootstrap"
    /\ round_i = 2
    /\ bootstrap_rounds = PyInt(2)
    /\ Len(grand_grand_mu) = 2
    /\ b_indices = <<1, 1>>
    /\ Len(effective_rh_list) = 2

\* the state invariants of C10
C10_Abort ==
    /\ error # PyNone => pc = "raised" /\ result = PyNone
    /\ pc = "raised" => error # PyNone
    /\ pc = "returned" =>
           /\ ParseCall(sequence).kind = "return"
           /\ generateChain_calls = Len(grand_grand_mu)
           /\ muTT_calls = Len(grand_grand_mu)
           /\ ensemble_size = Len(grand_grand_mu)
           /\ result.protein_rh = EffectiveRh(grand_grand_mu)
           /\ result.protein_rh.kind = "float"
           /\ bootstrap_rounds # PyNone =>
                  Len(effective_rh_list) = bootstrap_rounds.value

====
